---- MODULE Spec2Model ----
(***************************************************************************)
(* Model of openedx/core/lib/call_stack_manager.py: the call-stack capture *)
(* (capture_call_stack), the global ledger STACK_BOOK, the global flag     *)
(* TRACK_FLAG, the save/delete/get_query_set adapters and the donottrack   *)
(* decorator.                                                              *)
(*                                                                         *)
(* Text is modelled as a sequence of one-character strings, so that the    *)
(* string operations of the capture (replace, regular-expression match,    *)
(* split, strip, slicing) are computed character by character.             *)
(***************************************************************************)
EXTENDS Integers, Sequences, FiniteSets, TLC

VARIABLES
    STACK_BOOK,   \* the module-level defaultdict(list): class name -> list of stacks
    TRACK_FLAG,   \* the module-level flag
    log,          \* records handed to log.info: record -> number of times emitted
    active,       \* number of wrapper_func activations that are running func
    last,         \* the most recent call: its inputs, locals and outcome
    threads       \* concurrent callers of capture_call_stack: position and locals

vars == <<STACK_BOOK, TRACK_FLAG, log, active, last, threads>>

(***************************************************************************)
(* Bounds of the model.                                                    *)
(***************************************************************************)
MaxDepth == 3       \* frames in a raw stack handed to the normalizer
MaxNest == 2        \* nested activations of wrapper_func
MaxCalls == 1       \* captures one concurrent caller makes

\* The concurrent callers of capture_call_stack.
Threads == {"t1", "t2"}

(***************************************************************************)
(* Text helpers: Python's str.replace, re.match, str.split, str.strip and  *)
(* slicing, on sequences of characters.                                    *)
(***************************************************************************)
Whitespace == {" ", "\n", "\t"}

\* stack.replace("\n", "")
replace_newline(s) == SelectSeq(s, LAMBDA c : c # "\n")

\* s.split(','): the pieces between the commas, at least one piece
RECURSIVE split(_)
split(s) ==
    IF \A i \in 1..Len(s) : s[i] # ","
    THEN <<s>>
    ELSE LET k == CHOOSE i \in 1..Len(s) :
                    s[i] = "," /\ \A j \in 1..(i - 1) : s[j] # ","
         IN  <<SubSeq(s, 1, k - 1)>> \o split(SubSeq(s, k + 1, Len(s)))

\* s.strip()
strip(s) ==
    LET keep == {i \in 1..Len(s) : s[i] \notin Whitespace}
    IN  IF keep = {} THEN <<>>
        ELSE LET lo == CHOOSE i \in keep : \A j \in keep : i <= j
                 hi == CHOOSE i \in keep : \A j \in keep : j <= i
             IN  SubSeq(s, lo, hi)

\* s[from:] when drop = 0, s[from:-drop] otherwise (Python slices never fail)
slice(s, from, drop) ==
    IF from + 1 > Len(s) - drop THEN <<>> ELSE SubSeq(s, from + 1, Len(s) - drop)

(***************************************************************************)
(* EXCLUDE / REGULAR_EXPS.  Every pattern has the shape ^.*<body>.*$ ;     *)
(* the model keeps <body>, in which "." matches any character.  The frame  *)
(* text holds no newline when it is matched, so ^.* and .*$ match any      *)
(* prefix and suffix.                                                      *)
(***************************************************************************)
EXCLUDE ==
    << <<"p","y","t","h","o","n","2",".","7">>,
       <<"c","a","l","l","_","s","t","a","c","k","_","m","a","n","a","g","e","r">>,
       <<"<","e","x","e","c","_","f","u","n","c","t","i","o","n",">">>,
       <<"e","x","e","c","_","c","o","d","e","_","o","b","j","e","c","t">> >>

REGULAR_EXPS == EXCLUDE

\* reg.match(frame) for the pattern ^.*body.*$
reg_match(body, frame) ==
    \E i \in 0..(Len(frame) - Len(body)) :
        \A j \in 1..Len(body) : body[j] = "." \/ body[j] = frame[i + j]

\* any(reg.match(frame) for reg in REGULAR_EXPS)
excluded(frame) ==
    \E k \in 1..Len(REGULAR_EXPS) : reg_match(REGULAR_EXPS[k], frame)

(***************************************************************************)
(* The frame tuple of the list comprehension.  Indexing the pieces of the  *)
(* split raises IndexError when the text has fewer than three pieces.      *)
(***************************************************************************)
parse_frame(frame) ==
    LET parts == split(frame)
    IN  IF Len(parts) < 3
        THEN [raised |-> TRUE, value |-> <<>>]
        ELSE [raised |-> FALSE,
              value  |-> << slice(strip(parts[1]), 6, 1),
                            slice(strip(parts[2]), 6, 0),
                            slice(strip(parts[3]), 3, 0) >>]

\* The list comprehension over traceback.format_stack(): newlines removed,
\* excluded frames dropped, the others parsed in order; one IndexError ends it.
comprehension(stack) ==
    LET frames == [i \in 1..Len(stack) |-> replace_newline(stack[i])]
        kept   == SelectSeq(frames, LAMBDA f : ~excluded(f))
        parsed == [i \in 1..Len(kept) |-> parse_frame(kept[i])]
    IN  IF \E i \in 1..Len(parsed) : parsed[i].raised
        THEN [raised |-> TRUE, value |-> <<>>]
        ELSE [raised |-> FALSE, value |-> [i \in 1..Len(parsed) |-> parsed[i].value]]

(***************************************************************************)
(* traceback.format_stack(): one text per frame of the interpreter stack,  *)
(*   '  File "<file>", line <line>, in <name>\n    <text>\n'               *)
(* without the second line when the source text is not available.          *)
(***************************************************************************)
format_frame(f) ==
    <<" "," ","F","i","l","e"," ","\"">> \o f.file \o
    <<"\"",","," ","l","i","n","e"," ">> \o f.line \o
    <<","," ","i","n"," ">> \o f.name \o <<"\n">> \o
    (IF f.text = <<>> THEN <<>> ELSE <<" "," "," "," ">> \o f.text \o <<"\n">>)

\* Frames of the interpreter stack used as inputs.
FrameA == [file |-> <<"a">>, line |-> <<"1","2">>,
           name |-> <<"f">>, text |-> <<>>]
FrameB == [file |-> <<"b">>, line |-> <<"7">>,
           name |-> <<"g">>, text |-> <<"y">>]
FrameK == [file |-> <<"a",".","p","y">>, line |-> <<"3","0">>,
           name |-> <<"f">>, text |-> <<"h","(","1",",","2",")">>]
FrameX == [file |-> <<"c","a","l","l","_","s","t","a","c","k","_","m","a","n","a","g","e","r",".","p","y">>,
           line |-> <<"9","5">>, name |-> <<"s","a","v","e">>, text |-> <<"c">>]
FrameP == [file |-> <<"p","y","t","h","o","n","2","-","7","/","x",".","p","y">>,
           line |-> <<"4">>, name |-> <<"r">>, text |-> <<"z">>]
FrameE == [file |-> <<"<","s","t","r","i","n","g",">">>, line |-> <<"1">>,
           name |-> <<"<","e","x","e","c","_","f","u","n","c","t","i","o","n",">">>,
           text |-> <<>>]
FrameO == [file |-> <<"s",".","p","y">>, line |-> <<"8">>,
           name |-> <<"e","x","e","c","_","c","o","d","e","_","o","b","j","e","c","t">>,
           text |-> <<"e">>]

SrcFrames == {FrameA, FrameB, FrameK, FrameX, FrameP, FrameE, FrameO}

\* A frame text that does not have the fixed layout: no comma in it.
RawM == <<" "," ","F","i","l","e"," ","\"","a","\"","\n">>

RawFrames == {format_frame(f) : f \in SrcFrames} \cup {RawM}

RawStacks == UNION {[1..k -> RawFrames] : k \in 0..MaxDepth}

(***************************************************************************)
(* The record of the most recent call.                                     *)
(***************************************************************************)
NoTemp == [raised |-> FALSE, value |-> <<>>]

\* Outcomes of calls: a returned value or a raised exception.
None == [raised |-> FALSE, value |-> [op |-> "None", args |-> "none"]]
IndexError == [raised |-> TRUE, value |-> [op |-> "IndexError", args |-> "none"]]

Last(op, model, raw, temp, args, real, result) ==
    [op |-> op, model |-> model, raw |-> raw, temp |-> temp,
     args |-> args, real |-> real, result |-> result]

NoCall == Last("none", "none", <<>>, NoTemp, "none", <<>>, None)

InitState ==
    /\ STACK_BOOK = <<>>
    /\ TRACK_FLAG = TRUE
    /\ log = <<>>
    /\ active = 0
    /\ threads = [t \in Threads |->
                    [pc |-> "idle", model |-> "none", temp |-> <<>>, calls |-> 0]]

(***************************************************************************)
(* Inputs of the calls: the model classes, the call sites (with the raw    *)
(* stack traceback.format_stack() returns at each), the arguments given to *)
(* save and delete, and the values a wrapped function returns.             *)
(***************************************************************************)
Classes == {"StudentModule", "Widget"}

\* The call sites, and what traceback.format_stack() returns at each.
CallSites == {"AB", "A", "X", "AM"}

format_stack(site) ==
    CASE site = "AB" -> <<format_frame(FrameA), format_frame(FrameB)>>
      [] site = "A"  -> <<format_frame(FrameA)>>
      [] site = "X"  -> <<format_frame(FrameX)>>
      [] site = "AM" -> <<format_frame(FrameA), RawM>>

\* temp_call_stack, the value of the comprehension at a call site (computed once)
AtCallSites == [site \in CallSites |-> comprehension(format_stack(site))]

temp_call_stack(site) == AtCallSites[site]

Args == {"row", "bad"}

FuncValues == {"v1", "v2"}

(***************************************************************************)
(* STACK_BOOK, a defaultdict(list): reading a missing key creates it with  *)
(* an empty list.                                                          *)
(***************************************************************************)
\* the dictionary after STACK_BOOK[current_model] has been evaluated
lookup(book, current_model) ==
    IF current_model \in DOMAIN book THEN book
    ELSE book @@ (current_model :> <<>>)

\* Faulty membership tests: one that finds nothing, one that takes a recorded
\* stack for the captured one as soon as the captured one is a prefix of it.
not_in_blind(temp, entry) == TRUE

not_in_prefix(temp, entry) ==
    \A i \in 1..Len(entry) :
        ~(Len(temp) <= Len(entry[i]) /\ \A k \in 1..Len(temp) : temp[k] = entry[i][k])

\* A faulty membership test that takes the empty stack for new every time.
not_in_or_empty(temp, entry) ==
    temp = <<>> \/ \A i \in 1..Len(entry) : entry[i] # temp

\* temp_call_stack not in STACK_BOOK[current_model]: list membership by ==
not_in(temp, entry) == \A i \in 1..Len(entry) : entry[i] # temp

\* Faulty appends: one that inserts at the front, one that tests membership
\* again and skips a stack that is in the list by now.
insert_front(book, current_model, temp) ==
    [lookup(book, current_model) EXCEPT ![current_model] = <<temp>> \o @]

append_if_absent(book, current_model, temp) ==
    IF not_in(temp, lookup(book, current_model)[current_model])
    THEN [lookup(book, current_model) EXCEPT ![current_model] = Append(@, temp)]
    ELSE lookup(book, current_model)

\* A faulty append on a list shared by the keys: every entry gets the stack.
append_everywhere(book, current_model, temp) ==
    [k \in DOMAIN lookup(book, current_model) |->
        Append(lookup(book, current_model)[k], temp)]

\* STACK_BOOK[current_model].append(temp_call_stack)
append_stack(book, current_model, temp) ==
    [lookup(book, current_model) EXCEPT ![current_model] = Append(@, temp)]

\* A faulty log that keeps one record of a kind, however often it is emitted.
emit_once(lg, rec) ==
    IF rec \in DOMAIN lg THEN lg ELSE lg @@ (rec :> 1)

\* log.info(...): one more record of this kind
emit(lg, rec) ==
    IF rec \in DOMAIN lg THEN [lg EXCEPT ![rec] = @ + 1] ELSE lg @@ (rec :> 1)

NewCallRecord(current_model) ==
    [msg |-> "logging new call in global stack book, for %s", arg |-> current_model]
BookRecord == [msg |-> "%s", arg |-> "STACK_BOOK"]

\* A faulty capture that evaluates STACK_BOOK[current_model] before the
\* comprehension: a capture that raises has created the key by then.
capture_lookup_first(book, lg, current_model, site) ==
    LET temp == temp_call_stack(site)
        seen == lookup(book, current_model)
    IN  IF temp.raised
        THEN [book |-> seen, log |-> lg, temp |-> temp, raised |-> TRUE]
        ELSE IF not_in(temp.value, seen[current_model])
             THEN [book   |-> append_stack(book, current_model, temp.value),
                   log    |-> emit(emit(lg, NewCallRecord(current_model)), BookRecord),
                   temp   |-> temp,
                   raised |-> FALSE]
             ELSE [book |-> seen, log |-> lg, temp |-> temp, raised |-> FALSE]

\* capture_call_stack(current_model), called at call site `site`:
\* the dictionary and the log after the call, and whether it raised.
capture_call_stack(book, lg, current_model, site) ==
    LET temp == temp_call_stack(site)
    IN  IF temp.raised
        THEN [book |-> book, log |-> lg, temp |-> temp, raised |-> TRUE]
        ELSE IF not_in(temp.value, lookup(book, current_model)[current_model])
             THEN [book   |-> append_stack(book, current_model, temp.value),
                   log    |-> emit(emit(lg, NewCallRecord(current_model)), BookRecord),
                   temp   |-> temp,
                   raised |-> FALSE]
             ELSE [book   |-> lookup(book, current_model),
                   log    |-> lg,
                   temp   |-> temp,
                   raised |-> FALSE]

(***************************************************************************)
(* The real operations the adapters delegate to (the next class in the     *)
(* method resolution order).  They are outside this module: save and       *)
(* delete fail on the argument "bad", the outcome of get_query_set is      *)
(* chosen by the environment.                                              *)
(***************************************************************************)
super_call(op, args) ==
    [raised |-> (args = "bad"), value |-> [op |-> op, args |-> args]]

QueryOutcomes ==
    {[raised |-> r, value |-> [op |-> "get_query_set", args |-> "none"]] : r \in BOOLEAN}

\* A faulty adapter that drops what the real operation returns.
adapter_result_dropped(out) == IF out.raised THEN out ELSE None

\* what the adapter hands to its caller, given the real operation's outcome
adapter_result(out) == out

\* the arguments the adapter hands to the real operation
adapter_args(args) == args

\* whether the real operation, looking at the dictionary, finds the stack
\* of its call site under its class
in_ledger(temp, book, current_model) ==
    /\ current_model \in DOMAIN book
    /\ ~not_in(temp, book[current_model])

\* A faulty adapter that starts the real operation before the capture.
ledger_at_delegation_early(before, after) == before

\* the dictionary at the moment the real operation starts: the statement
\* capture_call_stack(...) has ended when  return super()...  is evaluated
ledger_at_delegation(before, after) == after

\* capture_call_stack(str(type(self))) then return super().<op>(*args, **kwargs):
\* an IndexError of the capture leaves the adapter before the real call
Adapter(op, current_model, site, args, out) ==
    LET c == capture_call_stack(STACK_BOOK, log, current_model, site)
    IN  /\ STACK_BOOK' = c.book
        /\ log' = c.log
        /\ last' = IF c.raised
                   THEN Last(op, current_model, <<>>, c.temp, args, <<>>, IndexError)
                   ELSE Last(op, current_model, <<>>, c.temp, args,
                             <<[op |-> op, args |-> adapter_args(args), out |-> out,
                                found |-> in_ledger(c.temp.value,
                                             ledger_at_delegation(STACK_BOOK, c.book),
                                             current_model)]>>,
                             adapter_result(out))

\* A direct call of capture_call_stack(current_model)
Capture(current_model, site) ==
    LET c == capture_call_stack(STACK_BOOK, log, current_model, site)
    IN  /\ STACK_BOOK' = c.book
        /\ log' = c.log
        /\ last' = Last("capture_call_stack", current_model, <<>>, c.temp,
                        "none", <<>>, IF c.raised THEN IndexError ELSE None)
        /\ UNCHANGED <<TRACK_FLAG, active, threads>>

\* CallStackMixin.save
save(current_model, site, args) ==
    /\ Adapter("save", current_model, site, args,
               super_call("save", adapter_args(args)))
    /\ UNCHANGED <<TRACK_FLAG, active, threads>>

\* CallStackMixin.delete
delete(current_model, site, args) ==
    /\ Adapter("delete", current_model, site, args,
               super_call("delete", adapter_args(args)))
    /\ UNCHANGED <<TRACK_FLAG, active, threads>>

\* CallStackManager.get_query_set
get_query_set(current_model, site, out) ==
    /\ Adapter("get_query_set", current_model, site, "none", out)
    /\ UNCHANGED <<TRACK_FLAG, active, threads>>

(***************************************************************************)
(* donottrack: wrapper_func sets TRACK_FLAG to False, calls func, sets     *)
(* TRACK_FLAG to True and returns nothing.  func runs between the two      *)
(* assignments; what it calls (captures, adapters, other wrapped           *)
(* functions) are the other actions, and an exception one of them raises   *)
(* is either handled in func or leaves func (wrapper_raise).               *)
(***************************************************************************)
\* wrapper_func up to the call of func
wrapper_enter ==
    /\ active < MaxNest
    /\ TRACK_FLAG' = FALSE
    /\ active' = active + 1
    /\ last' = Last("wrapper_enter", "none", <<>>, NoTemp, "none", <<>>, None)
    /\ UNCHANGED <<STACK_BOOK, log, threads>>

\* func returns v: wrapper_func sets the flag and ends
wrapper_return(v) ==
    /\ active > 0
    /\ TRACK_FLAG' = TRUE
    /\ active' = active - 1
    /\ last' = Last("donottrack", "none", <<>>, NoTemp, "none",
                    <<[op |-> "func", args |-> "none",
                       out |-> [raised |-> FALSE, value |-> [op |-> "func", args |-> v]]]>>,
                    None)
    /\ UNCHANGED <<STACK_BOOK, log, threads>>

FuncError == [raised |-> TRUE, value |-> [op |-> "func", args |-> "none"]]

\* func raises, or lets an exception raised by one of its calls through:
\* wrapper_func is left at the call of func
wrapper_raise ==
    /\ active > 0
    /\ active' = active - 1
    /\ last' = Last("donottrack", "none", <<>>, NoTemp, "none",
                    <<[op |-> "func", args |-> "none", out |-> FuncError]>>,
                    FuncError)
    /\ UNCHANGED <<STACK_BOOK, TRACK_FLAG, log, threads>>

(***************************************************************************)
(* The normalizer on its own: a raw stack is drawn, the comprehension is   *)
(* applied to it.                                                          *)
(***************************************************************************)
InitNorm ==
    /\ InitState
    /\ \E r \in RawStacks :
          last = Last("format_stack", "none", r, NoTemp, "none", <<>>, None)

NormalizeStack ==
    /\ last.op = "format_stack"
    /\ last' = [last EXCEPT !.op = "normalize", !.temp = comprehension(last.raw)]
    /\ UNCHANGED <<STACK_BOOK, TRACK_FLAG, log, active, threads>>

NextNorm == NormalizeStack

SpecNorm == InitNorm /\ [][NextNorm]_vars

Init ==
    /\ InitState
    /\ last = NoCall

Next ==
    \/ \E m \in Classes, s \in CallSites : Capture(m, s)
    \/ \E m \in Classes, s \in CallSites, a \in Args : save(m, s, a)
    \/ \E m \in Classes, s \in CallSites, a \in Args : delete(m, s, a)
    \/ \E m \in Classes, s \in CallSites, o \in QueryOutcomes : get_query_set(m, s, o)
    \/ wrapper_enter
    \/ \E v \in FuncValues : wrapper_return(v)
    \/ wrapper_raise

Spec == Init /\ [][Next]_vars

(***************************************************************************)
(* Concurrent callers of capture_call_stack.  The interpreter runs one     *)
(* thread at a time and may switch threads between the statements of the   *)
(* function: after the comprehension, after the membership test of the if, *)
(* and after the body of the if.                                           *)
(***************************************************************************)
Idle(calls) == [pc |-> "idle", model |-> "none", temp |-> <<>>, calls |-> calls]

\* thread t calls capture_call_stack(current_model): the comprehension
t_call(t, current_model, site) ==
    LET temp == temp_call_stack(site)
        n == threads[t].calls + 1
    IN  /\ threads[t].pc = "idle"
        /\ threads[t].calls < MaxCalls
        /\ threads' = [threads EXCEPT ![t] =
                          IF temp.raised THEN Idle(n)
                          ELSE [pc |-> "check", model |-> current_model,
                                temp |-> temp.value, calls |-> n]]
        /\ UNCHANGED <<STACK_BOOK, TRACK_FLAG, log, active, last>>

\* thread t evaluates  temp_call_stack not in STACK_BOOK[current_model]
t_check(t) ==
    LET me == threads[t]
    IN  /\ me.pc = "check"
        /\ STACK_BOOK' = lookup(STACK_BOOK, me.model)
        /\ threads' = [threads EXCEPT ![t] =
                          IF not_in(me.temp, STACK_BOOK'[me.model])
                          THEN [me EXCEPT !.pc = "append"]
                          ELSE Idle(me.calls)]
        /\ UNCHANGED <<TRACK_FLAG, log, active, last>>

\* thread t runs the body of the if: the append and the two log records
t_append(t) ==
    LET me == threads[t]
    IN  /\ me.pc = "append"
        /\ STACK_BOOK' = append_stack(STACK_BOOK, me.model, me.temp)
        /\ log' = emit(emit(log, NewCallRecord(me.model)), BookRecord)
        /\ threads' = [threads EXCEPT ![t] = Idle(me.calls)]
        /\ UNCHANGED <<TRACK_FLAG, active, last>>

NextConc ==
    \/ \E t \in Threads, m \in Classes, s \in CallSites : t_call(t, m, s)
    \/ \E t \in Threads : t_check(t)
    \/ \E t \in Threads : t_append(t)

SpecConc == Init /\ [][NextConc]_vars

(***************************************************************************)
(* Vocabulary of the properties.                                           *)
(***************************************************************************)
CaptureOps == {"capture_call_stack", "save", "delete", "get_query_set"}
AdapterOps == {"save", "delete", "get_query_set"}

\* the ledger entry of a class: its list, empty when the class is no key
Entry(book, m) == IF m \in DOMAIN book THEN book[m] ELSE <<>>

\* structural equality of stacks: same length, pairwise equal frame fields
StructEq(s1, s2) ==
    /\ Len(s1) = Len(s2)
    /\ \A i \in 1..Len(s1) : \A k \in 1..3 : s1[i][k] = s2[i][k]

Copies(S, entry) == Cardinality({i \in 1..Len(entry) : StructEq(entry[i], S)})

LogCount(lg, rec) == IF rec \in DOMAIN lg THEN lg[rec] ELSE 0

IsPrefix(s1, s2) == Len(s1) <= Len(s2) /\ \A i \in 1..Len(s1) : s1[i] = s2[i]

\* the step is a call that ran capture_call_stack to its end
Captured == last'.op \in CaptureOps /\ ~last'.temp.raised

\* the normalized stacks of the call sites
StackAB == temp_call_stack("AB").value
StackA  == temp_call_stack("A").value

(***************************************************************************)
(* C1.  Gate suppresses capture: a call of capture_call_stack made while   *)
(* TRACK_FLAG is False leaves STACK_BOOK exactly as it was.                *)
(* The function never reads TRACK_FLAG: the property is violated.          *)
(***************************************************************************)
C1_GateSuppressesCapture ==
    [][(~TRACK_FLAG /\ last'.op \in CaptureOps) => STACK_BOOK' = STACK_BOOK]_vars

(***************************************************************************)
(* C2.  Gate restoration on every exit path: whenever an activation of     *)
(* wrapper_func ends, by return or by an exception of func, TRACK_FLAG is  *)
(* True at that moment.  Violated when func raises.                        *)
(***************************************************************************)
C2_GateRestoredOnExit ==
    [][active' < active => TRACK_FLAG']_vars

(***************************************************************************)
(* C3.  No-duplicate invariant: with captures executed one at a time, no   *)
(* ledger entry holds two structurally equal stacks.                       *)
(***************************************************************************)
C3_NoDuplicates ==
    \A m \in DOMAIN STACK_BOOK :
        \A i, j \in 1..Len(STACK_BOOK[m]) :
            i # j => ~StructEq(STACK_BOOK[m][i], STACK_BOOK[m][j])

\* a capture of a stack that was already recorded, before another stack, has run
C3_Witness ==
    /\ last.op \in CaptureOps
    /\ ~last.temp.raised
    /\ Len(Entry(STACK_BOOK, last.model)) >= 2
    /\ StructEq(STACK_BOOK[last.model][1], last.temp.value)

(***************************************************************************)
(* C4.  Idempotent insert-if-new: a capture of stack S for class C appends *)
(* S at the end of C's entry, with a log record naming C, exactly when no  *)
(* structurally equal stack is in the entry; otherwise it changes neither  *)
(* the entry nor the log; afterwards exactly one stack equal to S is in    *)
(* the entry.                                                              *)
(***************************************************************************)
C4_InsertIfNew ==
    [][Captured =>
        LET C == last'.model
            S == last'.temp.value
            before == Entry(STACK_BOOK, C)
            after == Entry(STACK_BOOK', C)
        IN  /\ IF Copies(S, before) = 0
               THEN /\ after = Append(before, S)
                    /\ LogCount(log', NewCallRecord(C)) = LogCount(log, NewCallRecord(C)) + 1
               ELSE /\ after = before
                    /\ log' = log
            /\ Copies(S, after) = 1]_vars

\* [A,B] recorded, then [A] recorded as a distinct stack, then [A,B] captured again
C4_Witness ==
    /\ last.op \in CaptureOps
    /\ last.model = "Widget"
    /\ "Widget" \in DOMAIN STACK_BOOK
    /\ STACK_BOOK["Widget"] = <<StackAB, StackA>>
    /\ last.temp = [raised |-> FALSE, value |-> StackAB]

(***************************************************************************)
(* C5.  Append-only, first-seen order: in every step each class key stays  *)
(* a key and its list before the step is a prefix of its list after it.    *)
(***************************************************************************)
C5_AppendOnly ==
    [][\A m \in DOMAIN STACK_BOOK :
          /\ m \in DOMAIN STACK_BOOK'
          /\ IsPrefix(STACK_BOOK[m], STACK_BOOK'[m])]_vars

\* an entry has grown to three stacks while another class has an entry too
C5_Witness ==
    /\ DOMAIN STACK_BOOK = Classes
    /\ \E m \in Classes : Len(STACK_BOOK[m]) = 3

C7_AdapterTransparent ==
    (last.op \in AdapterOps /\ ~last.temp.raised) =>
        /\ Len(last.real) = 1
        /\ last.real[1].op = last.op
        /\ last.real[1].args = last.args
        /\ last.real[1].out.value = [op |-> last.op, args |-> last.args]
        /\ last.result = last.real[1].out

\* the real operation failed, inside a wrapped function, with the flag down
C7_Witness ==
    /\ last.op \in AdapterOps
    /\ ~last.temp.raised
    /\ Len(last.real) = 1
    /\ last.result.raised
    /\ ~TRACK_FLAG

(***************************************************************************)
(* C8.  Normalizer output: for a raw stack of well-formed frames the       *)
(* normalized stack is the subsequence of the frames no exclusion pattern  *)
(* matches, in order, each as (file, line, context) of its frame.          *)
(* The line loses its first digit (and the context is cut at a comma):     *)
(* the property is violated.                                               *)
(***************************************************************************)
WellFormed(raw) == \E f \in SrcFrames : format_frame(f) = raw

Origin(raw) == CHOOSE f \in SrcFrames : format_frame(f) = raw

\* the text after "in " of the frame, newlines removed
Context(f) ==
    IF f.text = <<>> THEN f.name ELSE f.name \o <<" "," "," "," ">> \o f.text

ExpectedStack(stack) ==
    LET kept == SelectSeq(stack, LAMBDA raw : ~excluded(replace_newline(raw)))
    IN  [i \in 1..Len(kept) |->
            <<Origin(kept[i]).file, Origin(kept[i]).line, Context(Origin(kept[i]))>>]

C8_NormalizerOutput ==
    (last.op = "normalize" /\ \A i \in 1..Len(last.raw) : WellFormed(last.raw[i])) =>
        /\ ~last.temp.raised
        /\ last.temp.value = ExpectedStack(last.raw)

(***************************************************************************)
(* C9.  Unsynchronized capture race: a thread that has passed the          *)
(* membership test appends its stack whatever the other thread has         *)
(* appended since, so two threads that both passed the test for the same   *)
(* class and stack leave two equal stacks in the entry.                    *)
(***************************************************************************)
C9_AppendAfterCheck ==
    [][\A t \in Threads :
          (threads[t].pc = "append" /\ threads'[t].pc # "append") =>
              Copies(threads[t].temp, Entry(STACK_BOOK', threads[t].model))
                  = Copies(threads[t].temp, Entry(STACK_BOOK, threads[t].model)) + 1]_vars

\* both threads are through and the entry holds the same stack twice
C9_Witness ==
    /\ \A t \in Threads : threads[t].pc = "idle" /\ threads[t].calls = 1
    /\ \E m \in DOMAIN STACK_BOOK :
          \E i, j \in 1..Len(STACK_BOOK[m]) :
              i # j /\ StructEq(STACK_BOOK[m][i], STACK_BOOK[m][j])

(***************************************************************************)
(* C10.  Nested suspensions compose: while an activation of wrapper_func   *)
(* is running its func, TRACK_FLAG is False, also after a nested wrapped   *)
(* call has returned.  The nested call sets the flag: violated.            *)
(***************************************************************************)
C10_NestedSuspension ==
    active > 0 => ~TRACK_FLAG

(***************************************************************************)
(* C11.  Capture precedes delegation: after every save, delete and         *)
(* get_query_set whose capture completed, the real operation was started   *)
(* once and found the stack of the call site in the ledger entry of the    *)
(* class, and the stack is in that entry exactly once, also when the real  *)
(* operation failed; when the capture raised, the real operation was not   *)
(* started at all.                                                         *)
(***************************************************************************)
C11_CaptureBeforeDelegation ==
    last.op \in AdapterOps =>
        IF last.temp.raised
        THEN last.real = <<>>
        ELSE /\ Len(last.real) = 1
             /\ last.real[1].found
             /\ Copies(last.temp.value, Entry(STACK_BOOK, last.model)) = 1

\* a save that recorded the first stack of its class and whose real
\* operation then failed
C11_Witness ==
    /\ last.op = "save"
    /\ ~last.temp.raised
    /\ last.result.raised
    /\ last.real[1].found
    /\ Entry(STACK_BOOK, last.model) = <<last.temp.value>>
    /\ LogCount(log, NewCallRecord(last.model)) = 1

(***************************************************************************)
(* C12.  Absent, never empty: after any sequence of calls every key of     *)
(* STACK_BOOK is a class for which a new stack has been logged and has a   *)
(* non-empty list, and a class for which no stack has been recorded is no  *)
(* key; so a capture that raised or met a duplicate has left no empty      *)
(* list behind.                                                            *)
(***************************************************************************)
C12_AbsentNeverEmpty ==
    /\ DOMAIN STACK_BOOK \subseteq Classes
    /\ \A m \in Classes :
           IF LogCount(log, NewCallRecord(m)) = 0
           THEN m \notin DOMAIN STACK_BOOK
           ELSE m \in DOMAIN STACK_BOOK /\ Len(STACK_BOOK[m]) > 0

\* a capture has just raised for a class that was never recorded, while
\* the other class has an entry
C12_Witness ==
    /\ last.op \in CaptureOps
    /\ last.temp.raised
    /\ last.model \notin DOMAIN STACK_BOOK
    /\ \E m \in Classes : m \in DOMAIN STACK_BOOK /\ Len(STACK_BOOK[m]) > 1

(***************************************************************************)
(* C13.  Counting the log records.                                         *)
(***************************************************************************)
RECURSIVE Total(_, _)
Total(f, S) ==
    IF S = {} THEN 0
    ELSE LET x == CHOOSE y \in S : TRUE IN f[x] + Total(f, S \ {x})

\* the number of records emitted, and of those whose argument is `arg`
TotalRecords == Total(log, DOMAIN log)
RecordsOf(arg) == Total(log, {r \in DOMAIN log : r.arg = arg})

\* the number of stacks in the ledger
TotalStacks ==
    Total([m \in DOMAIN STACK_BOOK |-> Len(STACK_BOOK[m])], DOMAIN STACK_BOOK)

\* C13 as stated.  One log record per new stack: after any sequence of
\* calls the number of records emitted equals the number of stacks in the
\* ledger.  A new stack is logged by two records: violated.
C13_OneRecordPerStack ==
    TotalRecords = TotalStacks

\* C13 amended.  Two log records per new stack, one of them naming the
\* class: after any sequence of calls the records naming a class are as
\* many as the stacks in the entry of that class, the records holding the
\* dictionary are as many as the stacks in the ledger, and there are no
\* other records; so a duplicate or a failed capture emits none.
C13_OneClassRecordPerStack ==
    /\ \A m \in Classes : RecordsOf(m) = Len(Entry(STACK_BOOK, m))
    /\ RecordsOf("STACK_BOOK") = TotalStacks
    /\ TotalRecords = 2 * TotalStacks

\* three stacks recorded under two classes, six records
C13_Witness ==
    /\ TotalStacks = 3
    /\ TotalRecords = 6
    /\ \E m \in Classes : RecordsOf(m) = 2 /\ Len(Entry(STACK_BOOK, m)) = 2
    /\ \E m \in Classes : RecordsOf(m) = 1 /\ Len(Entry(STACK_BOOK, m)) = 1

(***************************************************************************)
(* C14.  Empty stack is recordable once.                                   *)
(***************************************************************************)
\* every frame of a raw stack matches a pattern of REGULAR_EXPS
AllExcluded(stack) ==
    \A i \in 1..Len(stack) : excluded(replace_newline(stack[i]))

\* the call sites all of whose frames are excluded
EmptySites == {s \in CallSites : AllExcluded(format_stack(s))}

\* a raw stack all of whose frames are excluded normalizes to the empty stack
FilterCompleteness ==
    /\ \A r \in RawStacks : AllExcluded(r) => comprehension(r) = NoTemp
    /\ EmptySites # {}
    /\ \A s \in EmptySites : temp_call_stack(s) = NoTemp

\* C14.  A raw stack all of whose frames are excluded normalizes to the
\* empty stack, and a capture of the empty stack for a class appends it to
\* the entry of the class when the entry does not hold it, and otherwise
\* changes neither the ledger nor the log; the entry holds it once then.
C14_EmptyStackOnce ==
    [][(last'.op \in CaptureOps /\ ~last'.temp.raised /\ last'.temp.value = <<>>) =>
          /\ FilterCompleteness
          /\ IF Copies(<<>>, Entry(STACK_BOOK, last'.model)) = 0
             THEN Entry(STACK_BOOK', last'.model) =
                      Append(Entry(STACK_BOOK, last'.model), <<>>)
             ELSE STACK_BOOK' = STACK_BOOK /\ log' = log
          /\ Copies(<<>>, Entry(STACK_BOOK', last'.model)) = 1]_vars

\* the empty stack was recorded for a class, another stack after it, and
\* the last call captured the empty stack for that class again
C14_Witness ==
    /\ last.op \in CaptureOps
    /\ ~last.temp.raised
    /\ last.temp.value = <<>>
    /\ Len(Entry(STACK_BOOK, last.model)) = 2
    /\ Entry(STACK_BOOK, last.model)[1] = <<>>
    /\ Entry(STACK_BOOK, last.model)[2] # <<>>

(***************************************************************************)
(* C15.  Scoped suspension is transparent to the caller: a call of         *)
(* wrapper_func has called func once and hands the outcome of func to its  *)
(* caller.  wrapper_func returns nothing: violated when func returns.      *)
(***************************************************************************)
C15_WrapperTransparent ==
    last.op = "donottrack" =>
        /\ Len(last.real) = 1
        /\ last.real[1].op = "func"
        /\ last.result = last.real[1].out

(***************************************************************************)
(* C16.  Per-class isolation: a capture for a class leaves TRACK_FLAG and  *)
(* the keys and entries of the other classes as they were; a stack that    *)
(* is once in the entry of a class stays once in it, and a capture that    *)
(* completed leaves its stack once in the entry of its own class.          *)
(***************************************************************************)
C16_PerClassIsolation ==
    [][last'.op \in CaptureOps =>
          /\ TRACK_FLAG' = TRACK_FLAG
          /\ \A m \in Classes \ {last'.model} :
                 /\ (m \in DOMAIN STACK_BOOK') = (m \in DOMAIN STACK_BOOK)
                 /\ Entry(STACK_BOOK', m) = Entry(STACK_BOOK, m)
          /\ ~last'.temp.raised =>
                 /\ Copies(last'.temp.value, Entry(STACK_BOOK', last'.model)) = 1
                 /\ \A m \in Classes :
                        Copies(last'.temp.value, Entry(STACK_BOOK, m)) = 1 =>
                            Copies(last'.temp.value, Entry(STACK_BOOK', m)) = 1]_vars

\* the same stack is recorded once under each class, after other stacks
\* under one of them only
C16_Witness ==
    /\ last.op \in CaptureOps
    /\ ~last.temp.raised
    /\ last.temp.value = StackAB
    /\ \A m \in Classes : Copies(StackAB, Entry(STACK_BOOK, m)) = 1
    /\ Len(Entry(STACK_BOOK, last.model)) = 1
    /\ \E m \in Classes : Len(Entry(STACK_BOOK, m)) = 3

====
